---------------------------- MODULE Spec2Model ----------------------------
(***************************************************************************)
(* A model of the CIFAR utilities of the adaptive-federated-optimization   *)
(* baseline, in its two variants:                                          *)
(*   exp: baselines/flwr_baselines/experiments/.../cifar/utils.py          *)
(*   pub: baselines/flwr_baselines/publications/.../cifar/utils.py         *)
(* The code is single-threaded; a call is one action, but for train,       *)
(* whose loop runs statement by statement.  The variable `last` holds the  *)
(* call that returned or raised last, with its arguments and outcome.      *)
(***************************************************************************)
EXTENDS Integers, Sequences, FiniteSets, TLC

VARIABLES
    fedDir,     \* the partition directory whose contents `fs` shows
    fs,         \* client index -> contents of <fedDir>/<idx>/train.pt
    callback,   \* the closure the last generator call returned
    train_st,   \* the position of a running train() call
    last        \* the last call: its name, arguments and outcome

vars == <<fedDir, fs, callback, train_st, last>>

(***************************************************************************)
(* Bounds of the model.                                                    *)
(***************************************************************************)
MaxClients == 2
MaxSamples == 2
MaxEpochs == 3
MaxBatches == 3
MaxTestSamples == 2
MaxHist == 4

(***************************************************************************)
(* Python values.                                                          *)
(***************************************************************************)
None == [kind |-> "None"]
Return(v) == [kind |-> "return", value |-> v]
Raise(e) == [kind |-> "raise", exc |-> e]
NoCall == [fn |-> "none"]
Idle == [pc |-> "idle"]

Variants == {"exp", "pub"}

RECURSIVE SumSeq(_)
SumSeq(s) == IF s = <<>> THEN 0 ELSE Head(s) + SumSeq(Tail(s))

(***************************************************************************)
(* Partitioner.                                                            *)
(***************************************************************************)
\* A dataset (XY) of M samples is the set of its sample positions.
Dataset(M) == 1..M

\* The CIFAR-10 training split gen_cifar10_partitions loads, scaled down.
CifarTrain == Dataset(MaxSamples)

Dists == {[kind |-> "dist", id |-> "dist1"]}

\* flwr.dataset.utils.common.create_lda_partitions: every result it may
\* return, num_partitions disjoint partitions that cover the dataset, with
\* the distribution used (the one supplied, or a newly sampled one).
create_lda_partitions(dataset, dirichlet_dist, num_partitions) ==
    LET assign == [dataset -> 1..num_partitions]
        partsOf(a) == [p \in 1..num_partitions |-> {s \in dataset : a[s] = p}]
        dists == IF dirichlet_dist = None THEN Dists ELSE {dirichlet_dist}
    IN  {[parts |-> partsOf(a), dist |-> d] : a \in assign, d \in dists}

\* path_dir.mkdir(exist_ok=True, parents=True); torch.save(partition, ...):
\* the file at idx is created or overwritten, every other file is kept.
save_partition(files, idx, partition) ==
    [i \in DOMAIN files \cup {idx} |-> IF i = idx THEN partition ELSE files[i]]

\* A save loop that starts its enumeration at 1.
RECURSIVE save_loop_from1(_, _, _)
save_loop_from1(st, parts, idx) ==
    IF idx >= Len(parts)
    THEN st
    ELSE save_loop_from1(
             [files |-> save_partition(st.files, idx + 1, parts[idx + 1]),
              log |-> Append(st.log, idx + 1)],
             parts, idx + 1)

\* A save loop that clears the directory before its first write.
RECURSIVE save_loop_clearing(_, _, _)
save_loop_clearing(st, parts, idx) ==
    IF idx >= Len(parts)
    THEN st
    ELSE save_loop_clearing(
             [files |-> save_partition(IF idx = 0 THEN <<>> ELSE st.files,
                                       idx, parts[idx + 1]),
              log |-> Append(st.log, idx)],
             parts, idx + 1)

\* for idx, partition in enumerate(clients_partitions): the files and the
\* log of the indices written, from position idx on.
RECURSIVE save_loop(_, _, _)
save_loop(st, parts, idx) ==
    IF idx >= Len(parts)
    THEN st
    ELSE save_loop(
             [files |-> save_partition(st.files, idx, parts[idx + 1]),
              log |-> Append(st.log, idx)],
             parts, idx + 1)

\* partition_and_save (the same text in both variants): one call, for one
\* result r of the partitioning call; it returns r.dist, and `out` is what
\* the function fn that was called returns.
partition_and_save(fn, dataset, dirichlet_dist, num_partitions, concentration, r, out) ==
    LET st == save_loop([files |-> fs, log |-> <<>>], r.parts, 0)
    IN  /\ fs' = st.files
        /\ last' = [fn |-> fn,
                    dataset |-> dataset,
                    num_partitions |-> num_partitions,
                    concentration |-> concentration,
                    parts |-> r.parts,
                    log |-> st.log,
                    out |-> out]
        /\ UNCHANGED <<fedDir, callback, train_st>>

\* Concentrations, in thousandths: 0.1 and 0.104.
Concentrations == {100, 104}
DatasetNames == {"cifar10"}

Digit(d) == CASE d = 0 -> "0" [] d = 1 -> "1" [] d = 2 -> "2" [] d = 3 -> "3"
              [] d = 4 -> "4" [] d = 5 -> "5" [] d = 6 -> "6" [] d = 7 -> "7"
              [] d = 8 -> "8" [] d = 9 -> "9"

\* str(n) of an int n >= 0: its decimal digits, a sequence of characters.
RECURSIVE str(_)
str(n) == IF n < 10 THEN <<Digit(n)>> ELSE Append(str(n \div 10), Digit(n % 10))

\* f"{lda_concentration:.2f}" of a concentration given in thousandths (none
\* of the concentrations used lies halfway between two hundredths).
format_2f(c) ==
    LET h == (c + 5) \div 10
    IN  str(h \div 100) \o <<".", Digit((h \div 10) % 10), Digit(h % 10)>>

\* The directory the pub variant derives from its arguments.
fed_dir_pub(dataset_name, num_total_clients, lda_concentration) ==
    <<dataset_name, "partitions", str(num_total_clients),
      format_2f(lda_concentration)>>

FedDirs ==
    {fed_dir_pub(d, n, c) : d \in DatasetNames, n \in 1..MaxClients,
                            c \in Concentrations}

\* A direct call of partition_and_save on the directory.
PartitionAndSave ==
    /\ train_st = Idle
    /\ \E M \in 0..MaxSamples, N \in 1..MaxClients, c \in Concentrations,
          d \in {None} \cup Dists :
          \E r \in create_lda_partitions(Dataset(M), d, N) :
              partition_and_save("partition_and_save", Dataset(M), d, N, c, r,
                                 Return(r.dist))

\* gen_cifar10_partitions of the exp variant, called on the directory.
gen_cifar10_partitions_exp ==
    /\ train_st = Idle
    /\ \E N \in 1..MaxClients, c \in Concentrations :
          \E r \in create_lda_partitions(CifarTrain, None, N) :
              partition_and_save("gen_cifar10_partitions_exp", CifarTrain,
                                 None, N, c, r, Return(None))

\* gen_cifar10_partitions of the pub variant, for the arguments from which
\* it derives the directory, which it returns.
gen_cifar10_partitions_pub ==
    /\ train_st = Idle
    /\ \E name \in DatasetNames, N \in 1..MaxClients, c \in Concentrations :
          /\ fed_dir_pub(name, N, c) = fedDir
          /\ \E r \in create_lda_partitions(CifarTrain, None, N) :
                partition_and_save("gen_cifar10_partitions_pub", CifarTrain,
                                   None, N, c, r, Return(fedDir))

(***************************************************************************)
(* Train loop (the same text in both variants).                            *)
(***************************************************************************)
\* A loop control that leaves the epoch loop one epoch early.
RECURSIVE next_batch_short(_, _, _, _)
next_batch_short(epoch, batch, epochs, batches) ==
    IF epoch >= epochs
    THEN [done |-> TRUE]
    ELSE IF batch < batches
         THEN [done |-> FALSE, epoch |-> epoch, batch |-> batch + 1]
         ELSE next_batch_short(epoch + 1, 0, epochs, batches)

\* for _ in range(epochs): for images, labels in trainloader: the batch that
\* follows batch `batch` of epoch `epoch` (batch 0: the epoch is starting),
\* over a loader of `batches` batches.
RECURSIVE next_batch(_, _, _, _)
next_batch(epoch, batch, epochs, batches) ==
    IF epoch > epochs
    THEN [done |-> TRUE]
    ELSE IF batch < batches
         THEN [done |-> FALSE, epoch |-> epoch, batch |-> batch + 1]
         ELSE next_batch(epoch + 1, 0, epochs, batches)

\* train returns (None) once the loops are exhausted.
train_return(epochs, batches, ops, steps) ==
    /\ train_st' = Idle
    /\ last' = [fn |-> "train", epochs |-> epochs, batches |-> batches,
                ops |-> ops, steps |-> steps, out |-> Return(None)]

\* The loop moves to position pos, or train returns.
train_goto(pos, epochs, batches, ops, steps) ==
    IF pos.done
    THEN train_return(epochs, batches, ops, steps)
    ELSE /\ train_st' = [pc |-> "zero_grad", epochs |-> epochs,
                         batches |-> batches, epoch |-> pos.epoch,
                         batch |-> pos.batch, ops |-> ops, steps |-> steps]
         /\ UNCHANGED last

\* train(net, trainloader, epochs, ...) is called: criterion, optimizer,
\* net.train(), and the loops start.
train ==
    /\ train_st = Idle
    /\ \E epochs \in 0..MaxEpochs, batches \in 0..MaxBatches :
          train_goto(next_batch(1, 0, epochs, batches), epochs, batches, <<>>, 0)
    /\ UNCHANGED <<fedDir, fs, callback>>

\* One statement of the loop body, other than the optimizer's step.
train_body(pc, op, nextpc) ==
    /\ train_st.pc = pc
    /\ train_st' = [train_st EXCEPT
                        !.pc = nextpc,
                        !.ops = Append(@, <<op, train_st.epoch, train_st.batch>>)]
    /\ UNCHANGED <<fedDir, fs, callback, last>>

\* optimizer.zero_grad()
zero_grad == train_body("zero_grad", "zero_grad", "forward")

\* loss = criterion(net(images), labels)
forward == train_body("forward", "forward", "backward")

\* loss.backward()
backward == train_body("backward", "backward", "step")

\* optimizer.step(), and the loops' next iteration
optimizer_step ==
    /\ train_st.pc = "step"
    /\ train_goto(next_batch(train_st.epoch, train_st.batch,
                             train_st.epochs, train_st.batches),
                  train_st.epochs, train_st.batches,
                  Append(train_st.ops, <<"step", train_st.epoch, train_st.batch>>),
                  train_st.steps + 1)
    /\ UNCHANGED <<fedDir, fs, callback>>

(***************************************************************************)
(* Config generator.                                                       *)
(***************************************************************************)
\* Scalars: an int, a float (given in thousandths), a str (its characters).
PyInt(n) == [t |-> "int", v |-> n]
PyFloat(m) == [t |-> "float", v |-> m]
PyStr(cs) == [t |-> "str", v |-> cs]

DigitValue(c) == CHOOSE d \in 0..9 : Digit(d) = c

\* int(s) of a string of decimal digits.
RECURSIVE int(_)
int(cs) ==
    IF Len(cs) = 1
    THEN DigitValue(cs[1])
    ELSE 10 * int(SubSeq(cs, 1, Len(cs) - 1)) + DigitValue(cs[Len(cs)])

\* The digits of a fraction of m thousandths, without trailing zeros.
frac_digits(m) ==
    IF m % 10 # 0 THEN <<Digit(m \div 100), Digit((m \div 10) % 10), Digit(m % 10)>>
    ELSE IF m % 100 # 0 THEN <<Digit(m \div 100), Digit((m \div 10) % 10)>>
    ELSE <<Digit(m \div 100)>>

\* str(x) of a float x >= 0.001 given in thousandths: 10 -> "0.01".
str_float(m) == str(m \div 1000) \o <<".">> \o frac_digits(m % 1000)

EpochsPerRound == 1..MaxEpochs
BatchSizes == {16, 32, 64}
LearningRates == {10, 100}
MaxRound == 5

NoCallback == [from |-> "none"]

\* fit_config of the exp variant (lines 167-175): every scalar as a str.
fit_config(epochs_per_round, batch_size, client_learning_rate, rnd) ==
    [epoch_global |-> PyStr(str(rnd)),
     epochs |-> PyStr(str(epochs_per_round)),
     batch_size |-> PyStr(str(batch_size)),
     client_learning_rate |-> PyStr(str_float(client_learning_rate))]

\* on_fit_config of the pub variant: native scalars.
on_fit_config(epochs_per_round, batch_size, client_learning_rate, rnd) ==
    [epoch_global |-> PyInt(rnd),
     epochs |-> PyInt(epochs_per_round),
     batch_size |-> PyInt(batch_size),
     client_learning_rate |-> PyFloat(client_learning_rate)]

Closure(fn, env) == [kind |-> "closure", fn |-> fn, env |-> env]

\* gen_fit_config_fn of the exp variant defines fit_config and ends without
\* a return statement: the call returns None.
gen_fit_config_fn(epochs_per_round, batch_size, client_learning_rate) == None

\* gen_on_fit_config_fn of the pub variant returns the closure.
gen_on_fit_config_fn(epochs_per_round, batch_size, client_learning_rate) ==
    Closure("on_fit_config",
            [epochs_per_round |-> epochs_per_round, batch_size |-> batch_size,
             client_learning_rate |-> client_learning_rate])

\* The config generator of a variant is called.
GenFitConfig ==
    /\ train_st = Idle
    /\ \E variant \in Variants, e \in EpochsPerRound, b \in BatchSizes,
          lr \in LearningRates :
          LET ret == IF variant = "exp"
                     THEN gen_fit_config_fn(e, b, lr)
                     ELSE gen_on_fit_config_fn(e, b, lr)
              args == [variant |-> variant, epochs_per_round |-> e,
                       batch_size |-> b, client_learning_rate |-> lr]
          IN  /\ callback' = [from |-> "config", args |-> args, value |-> ret]
              /\ last' = [fn |-> "gen_fit_config", args |-> args,
                          out |-> Return(ret)]
    /\ UNCHANGED <<fedDir, fs, train_st>>

\* callback(rnd): calling None raises TypeError, calling a closure runs it.
call_config(f, rnd) ==
    IF f = None
    THEN Raise("TypeError")
    ELSE IF f.fn = "on_fit_config"
         THEN Return(on_fit_config(f.env.epochs_per_round, f.env.batch_size,
                                   f.env.client_learning_rate, rnd))
         ELSE Return(fit_config(f.env.epochs_per_round, f.env.batch_size,
                                f.env.client_learning_rate, rnd))

\* The orchestrator calls what the config generator returned, for a round.
CallFitConfig ==
    /\ train_st = Idle
    /\ callback.from = "config"
    /\ \E rnd \in 1..MaxRound :
          last' = [fn |-> "fit_config_call", args |-> callback.args,
                   rnd |-> rnd, out |-> call_config(callback.value, rnd)]
    /\ UNCHANGED <<fedDir, fs, callback, train_st>>

(***************************************************************************)
(* Evaluation: test, and the callback of get_cifar_eval_fn.                *)
(***************************************************************************)
RECURSIVE gcd(_, _)
gcd(a, b) == IF b = 0 THEN a ELSE gcd(b, a % b)

\* The float a / b of two ints, b > 0, as the fraction in lowest terms:
\* it is 0.0 exactly when a = 0 and 1.0 exactly when a = b.
Fraction(a, b) == [num |-> a \div gcd(a, b), den |-> b \div gcd(a, b)]

\* DataLoader(dataset, batch_size): consecutive batches of batch_size
\* samples, the last one shorter; no batch is empty.
RECURSIVE DataLoader(_, _)
DataLoader(samples, batch_size) ==
    IF samples = <<>>
    THEN <<>>
    ELSE IF Len(samples) <= batch_size
         THEN <<samples>>
         ELSE <<SubSeq(samples, 1, batch_size)>>
              \o DataLoader(SubSeq(samples, batch_size + 1, Len(samples)),
                            batch_size)

\* A sample as test sees it: its label, and the class the net gives the
\* highest logit (torch.max(outputs.data, 1)).
Sample(label, predicted) == [label |-> label, predicted |-> predicted]

\* A count of a batch that looks at its first sample alone.
batch_correct_first(batch) ==
    IF batch = <<>>
    THEN 0
    ELSE IF Head(batch).predicted = Head(batch).label THEN 1 ELSE 0

\* (predicted == labels).sum().item() of a batch.
RECURSIVE batch_correct(_)
batch_correct(batch) ==
    IF batch = <<>>
    THEN 0
    ELSE (IF Head(batch).predicted = Head(batch).label THEN 1 ELSE 0)
         + batch_correct(Tail(batch))

\* criterion(outputs, labels) raises when a label is no class of the net.
target_in_bounds(batch, net_classes) ==
    \A i \in 1..Len(batch) : batch[i].label \in 0..(net_classes - 1)

\* The loop of test over the batches from position i on: acc holds correct,
\* total, the batches whose loss has been summed, and whether a call raised.
RECURSIVE test_loop(_, _, _, _)
test_loop(acc, loader, i, net_classes) ==
    IF i > Len(loader) \/ acc.raised
    THEN acc
    ELSE IF ~target_in_bounds(loader[i], net_classes)
         THEN [acc EXCEPT !.raised = TRUE]
         ELSE test_loop([acc EXCEPT !.loss = Append(@, i),
                                    !.total = @ + Len(loader[i]),
                                    !.correct = @ + batch_correct(loader[i])],
                        loader, i + 1, net_classes)

\* The result of test with the division guarded against total = 0.
test_result_guarded(acc) ==
    IF acc.raised
    THEN Raise("IndexError")
    ELSE IF acc.total = 0
         THEN Return([loss |-> acc.loss, accuracy |-> Fraction(0, 1)])
         ELSE Return([loss |-> acc.loss,
                      accuracy |-> Fraction(acc.correct, acc.total)])

\* accuracy = correct / total; return loss, accuracy
test_result(acc) ==
    IF acc.raised
    THEN Raise("IndexError")
    ELSE IF acc.total = 0
         THEN Raise("ZeroDivisionError")
         ELSE Return([loss |-> acc.loss,
                      accuracy |-> Fraction(acc.correct, acc.total)])

\* test(net, testloader, device): the loss is the sum of the criterion over
\* the batches (kept as the list of the batches summed).
test(net_classes, loader) ==
    test_result(test_loop([correct |-> 0, total |-> 0, loss |-> <<>>,
                           raised |-> FALSE],
                          loader, 1, net_classes))

\* The classes an argument num_classes stands for, and the labels and the
\* predictions the model draws from (the first and the last class).
NumClasses == {10, 100}
ClassesUsed(n) == {0, n - 1}

\* test is called on a loader over samples with their predictions.
Test ==
    /\ train_st = Idle
    /\ \E net_classes \in NumClasses, n \in 0..MaxTestSamples,
          batch_size \in 1..MaxTestSamples :
          \E labels \in [1..n -> ClassesUsed(10) \cup ClassesUsed(100)],
             predicted \in [1..n -> ClassesUsed(net_classes)] :
              LET loader == DataLoader([i \in 1..n |-> Sample(labels[i], predicted[i])],
                                       batch_size)
              IN  last' = [fn |-> "test", net_classes |-> net_classes,
                           loader |-> loader, out |-> test(net_classes, loader)]
    /\ UNCHANGED <<fedDir, fs, callback, train_st>>

\* The entries of the state mapping of resnet18 with group normalization,
\* cut down to the first convolution and the output layer, which alone
\* depends on num_classes.
state_dict(num_classes) ==
    <<[key |-> "conv1.weight", shape |-> <<64, 3, 7, 7>>],
      [key |-> "fc.weight", shape |-> <<num_classes, 512>>],
      [key |-> "fc.bias", shape |-> <<num_classes>>]>>

\* The shapes of the arrays a weights sequence is made of.
Shapes == {<<64, 3, 7, 7>>, <<10, 512>>, <<100, 512>>, <<10>>, <<100>>}

\* [val.cpu().numpy() for _, val in model.state_dict().items()]: the weights
\* of a model of num_classes classes, in the order of its state mapping.
model_weights(num_classes) ==
    [i \in 1..Len(state_dict(num_classes)) |-> state_dict(num_classes)[i].shape]

\* The weights sequences evaluate is called with: those of a model of 10
\* or of 100 classes, cut short, extended by more arrays, or with one array
\* replaced by one of another shape.
WeightsInputs ==
    UNION {
        {SubSeq(model_weights(c), 1, n) : n \in 0..Len(model_weights(c))}
        \cup {model_weights(c) \o <<s>> : s \in Shapes}
        \cup {[model_weights(c) EXCEPT ![i] = s] :
                 i \in 1..Len(model_weights(c)), s \in Shapes}
        : c \in NumClasses}

\* np.atleast_1d(v): a 0-d array becomes a 1-d array of one element.
atleast_1d(shape) == IF shape = <<>> THEN <<1>> ELSE shape

Min(a, b) == IF a < b THEN a ELSE b

\* OrderedDict({k: torch.tensor(np.atleast_1d(v)) for k, v in
\* zip(net.state_dict().keys(), weights)}): zip stops at the shorter one.
zip_state_dict(entries, weights) ==
    [i \in 1..Min(Len(entries), Len(weights)) |->
        [key |-> entries[i].key, shape |-> atleast_1d(weights[i])]]

\* net.load_state_dict(state_dict, strict=True) succeeds when no key of the
\* net is missing, no key is unexpected and every shape is the net's.
load_state_dict(entries, loaded, weights) ==
    /\ \A i \in 1..Len(entries) :
          \E j \in 1..Len(loaded) : loaded[j].key = entries[i].key
    /\ \A j \in 1..Len(loaded) :
          \E i \in 1..Len(entries) :
              /\ loaded[j].key = entries[i].key
              /\ loaded[j].shape = entries[i].shape

\* The model evaluate builds: get_model() of the exp variant, with the
\* default num_classes, get_cifar_model(num_classes=num_classes) of pub.
DefaultNumClasses == 10

net_classes_of(variant, num_classes) ==
    IF variant = "exp" THEN DefaultNumClasses ELSE num_classes

\* The batch size of the loader evaluate builds.
EvalBatchSize == 50

\* CIFAR10 if num_classes == 10 else CIFAR100: the classes of the test split.
split_classes(num_classes) == IF num_classes = 10 THEN 10 ELSE 100

\* get_cifar_eval_fn loads the test split (its labels, scaled down) and
\* returns evaluate, closed over num_classes and the split.
get_cifar_eval_fn ==
    /\ train_st = Idle
    /\ \E variant \in Variants, num_classes \in NumClasses, n \in 0..MaxTestSamples :
          \E labels \in [1..n -> ClassesUsed(split_classes(num_classes))] :
              LET env == [variant |-> variant, num_classes |-> num_classes,
                          split |-> split_classes(num_classes), testset |-> labels]
              IN  /\ callback' = [from |-> "eval", args |-> env,
                                  value |-> Closure("evaluate", env)]
                  /\ last' = [fn |-> "get_cifar_eval_fn", args |-> env,
                              out |-> Return(Closure("evaluate", env))]
    /\ UNCHANGED <<fedDir, fs, train_st>>

\* evaluate(weights), with the classes the loaded net predicts.
evaluate_call(env, weights, predicted) ==
    LET net_classes == net_classes_of(env.variant, env.num_classes)
        entries == state_dict(net_classes)
        loaded == zip_state_dict(entries, weights)
    IN  IF ~load_state_dict(entries, loaded, weights)
        THEN Raise("RuntimeError")
        ELSE LET testloader ==
                     DataLoader([i \in 1..Len(env.testset) |->
                                    Sample(env.testset[i], predicted[i])],
                                EvalBatchSize)
                 r == test(net_classes, testloader)
             IN  IF r.kind = "raise"
                 THEN r
                 ELSE Return([loss |-> r.value.loss,
                              metrics |-> [accuracy |-> r.value.accuracy]])

\* The orchestrator calls the evaluation callback with a weights sequence;
\* the predictions are those of the net, when the weights load.
evaluate ==
    /\ train_st = Idle
    /\ callback.from = "eval"
    /\ \E weights \in WeightsInputs :
          LET env == callback.value.env
              net_classes == net_classes_of(env.variant, env.num_classes)
              entries == state_dict(net_classes)
              loads == load_state_dict(entries, zip_state_dict(entries, weights),
                                       weights)
          IN  \E predicted \in IF loads
                               THEN [1..Len(env.testset) -> ClassesUsed(net_classes)]
                               ELSE {<<>>} :
                  last' = [fn |-> "evaluate", args |-> env, weights |-> weights,
                           predicted |-> predicted, net_classes |-> net_classes,
                           out |-> evaluate_call(env, weights, predicted)]
    /\ UNCHANGED <<fedDir, fs, callback, train_st>>

(***************************************************************************)
(* Reporting (the same text in both variants).                             *)
(***************************************************************************)
\* The values a centralized metric takes: 0.0, 0.5 and 1.0.
MetricValues == {Fraction(0, 1), Fraction(1, 2), Fraction(1, 1)}
ExpectedMaxima == {70}

\* The round of the first pair of a history (the rounds that follow are
\* consecutive): 0 with an initial evaluation, 1 without.
FirstRounds == {0, 1}

\* The number by which the plot call multiplies y.
PlotFactor == 100

\* y * n of a tuple y: the tuple repeated n times.
tuple_repeat(y, n) ==
    IF n <= 0 THEN <<>> ELSE [i \in 1..(Len(y) * n) |-> y[((i - 1) % Len(y)) + 1]]

\* plt.plot(x, y) draws the points (x[i], y[i]), and raises ValueError when
\* x and y differ in length.
plt_plot(x, y) ==
    IF Len(x) # Len(y)
    THEN Raise("ValueError")
    ELSE Return([i \in 1..Len(x) |-> <<x[i], y[i]>>])

NoFigure == [points |-> <<>>, hlines |-> <<>>, saved |-> FALSE]

\* The body of plot_metric_from_history: x, y = zip(*pairs) raises ValueError
\* on no pairs; plt.plot(x, y * 100); plt.axhline; ...; plt.savefig.
plot_figure(pairs, expected_maximum) ==
    IF pairs = <<>>
    THEN [out |-> Raise("ValueError"), fig |-> NoFigure]
    ELSE LET x == [i \in 1..Len(pairs) |-> pairs[i][1]]
             y == [i \in 1..Len(pairs) |-> pairs[i][2]]
             drawn == plt_plot(x, tuple_repeat(y, PlotFactor))
         IN  IF drawn.kind = "raise"
             THEN [out |-> drawn, fig |-> NoFigure]
             ELSE [out |-> Return(None),
                   fig |-> [points |-> drawn.value,
                            hlines |-> <<expected_maximum>>, saved |-> TRUE]]

\* plot_metric_from_history is called on a history of (round, value) pairs.
plot_metric_from_history ==
    /\ train_st = Idle
    /\ \E k \in 0..MaxHist, expected_maximum \in ExpectedMaxima :
          \E first \in FirstRounds, values \in [1..k -> MetricValues] :
              LET pairs == [i \in 1..k |-> <<first + i - 1, values[i]>>]
                  r == plot_figure(pairs, expected_maximum)
              IN  last' = [fn |-> "plot_metric_from_history", pairs |-> pairs,
                           expected_maximum |-> expected_maximum,
                           fig |-> r.fig, out |-> r.out]
    /\ UNCHANGED <<fedDir, fs, callback, train_st>>

\* The directory the callers of the exp variant pass when none is derived.
DefaultFedDir == fed_dir_pub("cifar10", 1, 100)

InitPartition ==
    /\ fedDir \in FedDirs
    /\ fs = <<>>
    /\ callback = NoCallback
    /\ train_st = Idle
    /\ last = NoCall

Init ==
    /\ fedDir = DefaultFedDir
    /\ fs = <<>>
    /\ callback = NoCallback
    /\ train_st = Idle
    /\ last = NoCall

NextPartition ==
    \/ PartitionAndSave
    \/ gen_cifar10_partitions_exp
    \/ gen_cifar10_partitions_pub

SpecPartition == InitPartition /\ [][NextPartition]_vars

TrainStep == zero_grad \/ forward \/ backward \/ optimizer_step

NextTrain == train \/ TrainStep

SpecTrain == Init /\ [][NextTrain]_vars

NextConfig == GenFitConfig \/ CallFitConfig

SpecConfig == Init /\ [][NextConfig]_vars

NextPlot == plot_metric_from_history

SpecPlot == Init /\ [][NextPlot]_vars

NextTest == Test

SpecTest == Init /\ [][NextTest]_vars

NextEval == get_cifar_eval_fn \/ evaluate

SpecEval == Init /\ [][NextEval]_vars

\* Every call of the module.  The properties are checked component by
\* component, under the specifications above.
Next ==
    \/ NextPartition
    \/ NextTrain
    \/ NextConfig
    \/ NextPlot
    \/ NextTest
    \/ NextEval

Spec == InitPartition /\ [][Next]_vars

(***************************************************************************)
(* Properties.                                                             *)
(***************************************************************************)
\* The value a scalar of a config stands for, string-encoded or native.
scalar_value(x) == IF x.t = "str" THEN int(x.v) ELSE x.v

\* C1: in both variants, the callback the config generator returns for
\* (epochs_per_round, batch_size, client_learning_rate), applied to a round,
\* returns a mapping whose epochs is epochs_per_round and whose batch_size
\* is batch_size, string-encoded or native.
C1_ConfigCallbackGivesEpochsAndBatchSize ==
    last.fn = "fit_config_call" =>
        /\ last.out.kind = "return"
        /\ scalar_value(last.out.value.epochs) = last.args.epochs_per_round
        /\ scalar_value(last.out.value.batch_size) = last.args.batch_size

\* C2: the evaluation callback raises for every weights sequence whose
\* length differs from the number of entries of the model's state mapping,
\* shorter or longer.
C2_EvaluateFailsOnLengthMismatch ==
    (/\ last.fn = "evaluate"
     /\ Len(last.weights) # Len(state_dict(last.net_classes)))
        => last.out.kind = "raise"

PartitionFns ==
    {"partition_and_save", "gen_cifar10_partitions_exp",
     "gen_cifar10_partitions_pub"}

GenFns == {"gen_cifar10_partitions_exp", "gen_cifar10_partitions_pub"}

\* C3: a partition_and_save call on a dataset of size M with num_partitions
\* = N writes exactly N files, at the indices 0..N-1 in increasing order,
\* the file at idx being the idx-th partition the partitioning call
\* returned, and the sizes of the files written add up to M.
C3_PartitionAndSavePersistsAll ==
    last.fn \in PartitionFns =>
        LET N == last.num_partitions
        IN  /\ Len(last.parts) = N
            /\ last.log = [i \in 1..N |-> i - 1]
            /\ \A idx \in 0..(N - 1) :
                  idx \in DOMAIN fs /\ fs[idx] = last.parts[idx + 1]
            /\ SumSeq([i \in 1..N |-> Cardinality(fs[i - 1])])
                   = Cardinality(last.dataset)

\* C3 witness: a call with two clients wrote two non-empty partitions.
C3_Witness ==
    /\ last.fn = "partition_and_save"
    /\ last.num_partitions = 2
    /\ Cardinality(last.dataset) = 2
    /\ last.log = <<0, 1>>
    /\ fs[0] # {} /\ fs[1] # {}

\* C4: running gen_cifar10_partitions again with the configuration of the
\* run before (client count and concentration) leaves every persisted
\* train.pt unchanged: nothing is sampled anew, nothing is overwritten.
C4_RerunLeavesPartitionsUnchanged ==
    [][(/\ last.fn \in GenFns
        /\ last'.fn = last.fn
        /\ last'.num_partitions = last.num_partitions
        /\ last'.concentration = last.concentration)
           => fs' = fs]_vars

\* C5, as the spec states it: on a non-empty loader whose samples all carry
\* the same label, whatever the model predicts per sample, the accuracy
\* test returns is exactly 0.0 or exactly 1.0.
TestSamples == IF last.fn = "test" THEN UNION {{b[i] : i \in 1..Len(b)} :
                                          b \in {last.loader[j] : j \in 1..Len(last.loader)}}
               ELSE {}

SameLabel == \A a, b \in TestSamples : a.label = b.label
SamePrediction == \A a, b \in TestSamples : a.predicted = b.predicted

C5_OneLabelAccuracyIsZeroOrOne ==
    (/\ last.fn = "test"
     /\ last.loader # <<>>
     /\ SameLabel
     /\ last.out.kind = "return")
        => last.out.value.accuracy \in {Fraction(0, 1), Fraction(1, 1)}

\* C5, amended: when moreover the model predicts the same class for every
\* sample, the accuracy test returns is exactly 0.0 or exactly 1.0.
C5_OneLabelOnePredictionAccuracyIsZeroOrOne ==
    (/\ last.fn = "test"
     /\ last.loader # <<>>
     /\ SameLabel
     /\ SamePrediction
     /\ last.out.kind = "return")
        => last.out.value.accuracy \in {Fraction(0, 1), Fraction(1, 1)}

\* C5 witness: two samples of one label in one batch, both predicted right.
C5_Witness ==
    /\ last.fn = "test"
    /\ Len(last.loader) = 1
    /\ Len(last.loader[1]) = 2
    /\ SameLabel
    /\ SamePrediction
    /\ last.out.kind = "return"
    /\ last.out.value.accuracy = Fraction(1, 1)

\* C6: test on a loader of no batches raises ZeroDivisionError and returns
\* no result, and the error leaves the evaluation callback that reached
\* test with an empty test split.
C6_EmptyLoaderRaisesZeroDivision ==
    /\ \A c \in NumClasses : test(c, <<>>) = Raise("ZeroDivisionError")
    /\ (/\ last.fn = "evaluate"
        /\ last.args.testset = <<>>
        /\ last.out # Raise("RuntimeError"))
           => last.out = Raise("ZeroDivisionError")

\* C6 witness: the callback loaded the weights and ran test on no samples.
C6_Witness ==
    /\ last.fn = "evaluate"
    /\ last.args.testset = <<>>
    /\ last.weights = model_weights(last.net_classes)
    /\ last.out = Raise("ZeroDivisionError")

\* C7: plot_metric_from_history on a history of k >= 1 (round, value)
\* pairs plots exactly k points, the i-th being (round_i, 100 * value_i),
\* and saves the figure.
C7_PlotsPercentagePerRound ==
    (last.fn = "plot_metric_from_history" /\ last.pairs # <<>>) =>
        /\ last.out.kind = "return"
        /\ last.fig.saved
        /\ last.fig.points =
               [i \in 1..Len(last.pairs) |->
                   <<last.pairs[i][1],
                     Fraction(last.pairs[i][2].num * 100, last.pairs[i][2].den)>>]

\* The calls train makes with epochs = E over B batches, in order.
OpNames == <<"zero_grad", "forward", "backward", "step">>

ExpectedOps(E, B) ==
    [k \in 1..(4 * E * B) |->
        <<OpNames[((k - 1) % 4) + 1],
          (((k - 1) \div 4) \div B) + 1,
          (((k - 1) \div 4) % B) + 1>>]

\* C8: train with epochs = E over a loader of B batches makes exactly the
\* calls zero_grad, forward, backward, step for every batch of every epoch,
\* in loader order, and returns after E * B optimizer steps: while it runs
\* its calls so far are a proper prefix of those, and a next call is enabled.
C8_TrainRunsEveryBatchOfEveryEpoch ==
    /\ train_st # Idle =>
          LET expected == ExpectedOps(train_st.epochs, train_st.batches)
          IN  /\ Len(train_st.ops) < Len(expected)
              /\ train_st.ops = SubSeq(expected, 1, Len(train_st.ops))
              /\ train_st.steps = Len(train_st.ops) \div 4
              /\ ENABLED TrainStep
    /\ last.fn = "train" =>
          /\ last.ops = ExpectedOps(last.epochs, last.batches)
          /\ last.steps = last.epochs * last.batches

\* C8 witness: a call with two epochs over two batches has returned.
C8_Witness ==
    /\ train_st = Idle
    /\ last.fn = "train"
    /\ last.epochs = 2
    /\ last.batches = 2
    /\ last.steps = 4

\* C9: in both variants the model the evaluation callback builds has its
\* output layer sized to the num_classes given to get_cifar_eval_fn, the
\* classes of the test split that num_classes selects.
C9_EvaluatedModelMatchesNumClasses ==
    last.fn = "evaluate" =>
        /\ last.net_classes = last.args.num_classes
        /\ last.net_classes = last.args.split

\* C10, as first stated: after any sequence of partition_and_save calls on
\* the directory, the client directories that hold a train.pt are exactly
\* 0..N-1 for the N of the latest call, each holding a partition of it.
C10_OnlyLatestCallsFiles ==
    last.fn \in PartitionFns =>
        /\ DOMAIN fs = 0..(last.num_partitions - 1)
        /\ \A idx \in DOMAIN fs : fs[idx] = last.parts[idx + 1]

\* C10, amended: a partition_and_save call with num_partitions = N leaves
\* the directories 0..N-1 holding its own partitions, adds no other, and
\* keeps unchanged every train.pt an earlier call left at an index >= N.
C10_LatestCallsFilesAndOlderKept ==
    [][last'.fn \in PartitionFns =>
          /\ DOMAIN fs' = DOMAIN fs \cup 0..(last'.num_partitions - 1)
          /\ \A idx \in DOMAIN fs' :
                IF idx < last'.num_partitions
                THEN fs'[idx] = last'.parts[idx + 1]
                ELSE fs'[idx] = fs[idx]]_vars

\* C10 witness: after a call with one client, the file an earlier call with
\* two clients wrote at index 1 is still there.
C10_Witness ==
    /\ last.fn \in PartitionFns
    /\ last.num_partitions = 1
    /\ 1 \in DOMAIN fs

=============================================================================
